---- MODULE Spec2Model ----
(***************************************************************************)
(* State-machine model of scripts/mn-ndnd.py: the Mininet/ndnd scenario    *)
(* runner.  The control thread (main) is modelled statement by statement   *)
(* with a program counter pc; the background handover thread has its own   *)
(* counter hpc; the daemons are black boxes that create their control      *)
(* socket some time after launch.                                          *)
(***************************************************************************)
EXTENDS Integers, Sequences, FiniteSets, TLC

\* ------------------------------------------------------------------ bounds
\* The positive --handover-after value drawn, in seconds (0 disables).
HandoverDelay == 1
\* Number of 0.1 s readiness polls that fit before the 8 s deadline (scaled).
MaxPolls == 2
\* Largest of the consecutive indices the allocator is applied to: 0..66
\* crosses the step of the third octet at index 64.
MaxIndex == 66

\* --------------------------------------------------------------- constants
\* nodes dict of main, in insertion order (line 178).
NodeOrder == <<"g1", "g2", "s1", "s2", "s3">>
Nodes == {NodeOrder[i] : i \in 1..Len(NodeOrder)}
Ground == {"g1", "g2"}

\* Mutant of LinkPlan: the g2-s2 link is created as a backbone link.
LinkPlan_WrongKind ==
  << [a |-> "s1", b |-> "s2", kind |-> "isl"],
     [a |-> "s2", b |-> "s3", kind |-> "isl"],
     [a |-> "g1", b |-> "s1", kind |-> "access"],
     [a |-> "g1", b |-> "s2", kind |-> "access"],
     [a |-> "g2", b |-> "s2", kind |-> "isl"],
     [a |-> "g2", b |-> "s3", kind |-> "access"] >>

\* The six add_p2p calls of main, in program order (lines 228-235).
LinkPlan ==
  << [a |-> "s1", b |-> "s2", kind |-> "isl"],
     [a |-> "s2", b |-> "s3", kind |-> "isl"],
     [a |-> "g1", b |-> "s1", kind |-> "access"],
     [a |-> "g1", b |-> "s2", kind |-> "access"],
     [a |-> "g2", b |-> "s2", kind |-> "access"],
     [a |-> "g2", b |-> "s3", kind |-> "access"] >>

\* Mutant of _alloc_p2p_subnet: consecutive indices are two addresses apart.
_alloc_p2p_subnet_Stride2(index) ==
  LET third  == index \div 64
      fourth == (index % 64) * 2
  IN [cidr |-> <<10, 0, third, fourth, 30>>,
      ip1  |-> <<10, 0, third, fourth + 1>>,
      ip2  |-> <<10, 0, third, fourth + 2>>]

\* _alloc_p2p_subnet(index): the /30 block and its two host addresses.
_alloc_p2p_subnet(index) ==
  LET third  == index \div 64
      fourth == (index % 64) * 4
  IN [cidr |-> <<10, 0, third, fourth, 30>>,
      ip1  |-> <<10, 0, third, fourth + 1>>,
      ip2  |-> <<10, 0, third, fourth + 2>>]

\* _find_ndnd(explicit, repo_root): explicit is "none" (no --ndnd), "exists"
\* or "missing" (--ndnd given, file present or not); onPath is shutil.which,
\* inRepo is os.path.exists(repo_root/ndnd/ndnd).  The result is the place the
\* binary was found at, or "ERR" for FileNotFoundError.
_find_ndnd(explicit, onPath, inRepo) ==
  IF explicit # "none"
    THEN (IF explicit = "missing" THEN "ERR" ELSE "explicit")
    ELSE IF onPath THEN "which"
    ELSE IF inRepo THEN "repo"
    ELSE "ERR"

\* _ensure_root(): TRUE when os.geteuid() = 0, otherwise PermissionError.
_ensure_root(euid) == euid = 0

VARIABLES
  pc,             \* control thread: next statement of main
  exitCode,       \* -1 while the process runs, then its exit status
  err,            \* exception that left main's body ("none": none, or swallowed)
  rootChecked,    \* _ensure_root() has returned
  handover_after, \* args.handover_after
  ndnd_bin,       \* "unset", then "path": _find_ndnd returned a path
  files,          \* files and directories written by this run
  hosts,          \* nodes created by net.addHost
  links,          \* the links list of main
  subnet_idx,     \* nonlocal counter of add_p2p
  linkStatus,     \* per link: "up" | "down" | "removed" (after net.stop)
  net,            \* "none" | "built" | "started" | "stopped"
  procs,          \* keys of the procs dict
  running,        \* nodes whose daemon process is alive
  socks,          \* nodes whose control-socket path exists
  i,              \* loop index of the control thread's current loop
  polls,          \* readiness polls done
  missing,        \* the missing list of the readiness wait
  warned,         \* the "sockets not ready" warning was logged
  cmds,           \* link-create commands issued: [on, peer, by]
  cmdFailed,      \* some link-create command has failed (before `|| true`)
  hpc,            \* handover thread: next statement
  hi,             \* loop index of the handover thread
  announced,      \* the handover log line has been emitted
  todo,           \* list(procs.items()) snapshot of cleanup
  cpc,            \* cleanup: next statement of the loop body
  cur,            \* cleanup: what was attempted on the current daemon
  stopTried,      \* nodes on which cleanup attempted a stop
  downTried,      \* cleanup attempted net.stop()
  apc,            \* allocator harness: "off" | "in" (arguments chosen) | "out"
  ai, aj,         \* allocator harness: the two indices passed
  ares            \* allocator harness: what the two calls returned

vars == <<pc, exitCode, err, rootChecked, handover_after, ndnd_bin, files, hosts, links,
          subnet_idx, linkStatus, net, procs, running, socks, i, polls,
          missing, warned, cmds, cmdFailed, hpc, hi, announced, todo, cpc, cur,
          stopTried, downTried, apc, ai, aj, ares>>

allocV == <<apc, ai, aj, ares>>
buildV == <<hosts, links, subnet_idx>>
daemonV == <<procs, running, socks>>
waitV == <<polls, missing, warned>>
hoV == <<hpc, hi, announced>>
cleanV == <<todo, cpc, cur, stopTried, downTried>>
argV == <<rootChecked, handover_after, ndnd_bin>>

NoCur == [term |-> "no", wait |-> "no", kill |-> "no"]

Init ==
  /\ pc = "root"
  /\ exitCode = -1
  /\ err = "none"
  /\ rootChecked = FALSE
  /\ handover_after \in {0, HandoverDelay}
  /\ ndnd_bin = "unset"
  /\ files = {}
  /\ hosts = {}
  /\ links = <<>>
  /\ subnet_idx = 0
  /\ linkStatus = <<>>
  /\ net = "none"
  /\ procs = {}
  /\ running = {}
  /\ socks \in SUBSET Nodes      \* stale sockets of an earlier run
  /\ i = 1
  /\ polls = 0
  /\ missing = <<>>
  /\ warned = FALSE
  /\ cmds = {}
  /\ cmdFailed = FALSE
  /\ hpc = "none"
  /\ hi = 1
  /\ announced = FALSE
  /\ todo = <<>>
  /\ cpc = "term"
  /\ cur = NoCur
  /\ stopTried = {}
  /\ downTried = FALSE
  /\ apc = "off" /\ ai = 0 /\ aj = 0 /\ ares = <<>>

\* ------------------------------------------------------- leaving main
\* Statements of main inside the try block (lines 261-341).
TryPcs == {"unlink", "conf", "popen", "deadline", "poll", "warn",
           "linkA", "linkB", "spawn", "run", "cli", "sleep"}
\* Statements of main before the try block (lines 166-243).
PreTryPcs == {"root", "find", "mkdir", "wrapper", "mininet", "hosts",
              "links", "start", "cfg1", "cfg2"}

\* The interpreter exits: the daemon thread (daemon=True, line 328) dies with
\* it, wherever it is (hpc keeps the statement it never got to run).
ProcessExit(code) ==
  /\ pc' = "exit"
  /\ exitCode' = code
  /\ hpc' = hpc

\* finally: cleanup() is entered (line 346); list(procs.items()) is taken (246).
\* The locals of the readiness wait are dead from here on.
EnterCleanup(e) ==
  LET snap == SelectSeq(NodeOrder, LAMBDA n : n \in procs)
  IN /\ err' = e
     /\ missing' = <<>>
     /\ polls' = 0
     /\ todo' = snap
     /\ i' = 1
     /\ cpc' = "term"
     /\ cur' = NoCur
     /\ pc' = IF snap = <<>> THEN "netstop" ELSE "cleanup"

\* An exception of the given kind leaves the current statement of main:
\* inside the try block KeyboardInterrupt is swallowed (343-344) and anything
\* else stays pending while the finally block runs; before the try block the
\* exception is uncaught and the process ends with a traceback.
Throw(kind) ==
  IF pc \in TryPcs
    THEN /\ EnterCleanup(IF kind = "KeyboardInterrupt" THEN "none" ELSE kind)
         /\ UNCHANGED <<exitCode, hpc>>
    ELSE /\ ProcessExit(IF kind = "KeyboardInterrupt" THEN 130 ELSE 1)
         /\ err' = kind
         /\ UNCHANGED <<todo, i, cpc, cur, missing, polls>>

\* ------------------------------------------------------- pre-flight
\* Mutant of EnsureRoot: the state directory is made before the check.
EnsureRoot_Late ==
  /\ pc = "root"
  /\ files' = files \cup {<<"", "dir">>}
  /\ \E euid \in {0, 1000} :
       IF _ensure_root(euid)
         THEN pc' = "find" /\ rootChecked' = TRUE /\ UNCHANGED <<exitCode, hpc, err>>
         ELSE ProcessExit(1) /\ err' = "PermissionError" /\ UNCHANGED rootChecked
  /\ UNCHANGED <<handover_after, ndnd_bin, buildV, linkStatus, net,
                 daemonV, i, waitV, cmds, cmdFailed, hi, announced, cleanV, allocV>>

\* line 166: _ensure_root()
EnsureRoot ==
  /\ pc = "root"
  /\ \E euid \in {0, 1000} :
       IF _ensure_root(euid)
         THEN pc' = "find" /\ rootChecked' = TRUE /\ UNCHANGED <<exitCode, hpc, err>>
         ELSE ProcessExit(1) /\ err' = "PermissionError" /\ UNCHANGED rootChecked
  /\ UNCHANGED <<handover_after, ndnd_bin, files, buildV, linkStatus, net,
                 daemonV, i, waitV, cmds, cmdFailed, hi, announced, cleanV, allocV>>

\* line 170: ndnd_bin = _find_ndnd(args.ndnd, repo_root)
FindNdnd ==
  /\ pc = "find"
  /\ \E explicit \in {"none", "exists", "missing"}, onPath \in BOOLEAN,
        inRepo \in BOOLEAN :
       LET p == _find_ndnd(explicit, onPath, inRepo)
       IN IF p = "ERR"
            THEN ProcessExit(1) /\ err' = "FileNotFoundError" /\ UNCHANGED ndnd_bin
            ELSE pc' = "mkdir" /\ ndnd_bin' = "path" /\ UNCHANGED <<exitCode, hpc, err>>
  /\ UNCHANGED <<rootChecked, handover_after, files, buildV, linkStatus, net,
                 daemonV, i, waitV, cmds, cmdFailed, hi, announced, cleanV, allocV>>

\* line 172: os.makedirs(state_dir, exist_ok=True)
MakeStateDir ==
  /\ pc = "mkdir"
  /\ files' = files \cup {<<"", "dir">>}
  /\ pc' = "wrapper"
  /\ UNCHANGED <<exitCode, err, rootChecked, handover_after, ndnd_bin, buildV, linkStatus,
                 net, daemonV, i, waitV, cmds, cmdFailed, hoV, cleanV, allocV>>

\* lines 174-175: _write_host_wrapper(wrapper_path, ndnd_bin, state_dir)
WriteWrapper ==
  /\ pc = "wrapper"
  /\ files' = files \cup {<<"", "ndndctl">>}
  /\ pc' = "mininet"
  /\ UNCHANGED <<exitCode, err, rootChecked, handover_after, ndnd_bin, buildV, linkStatus,
                 net, daemonV, i, waitV, cmds, cmdFailed, hoV, cleanV, allocV>>

\* ------------------------------------------------------- topology build
\* line 177: net = Mininet(...)
NewMininet ==
  /\ pc = "mininet"
  /\ net' = "built"
  /\ pc' = "hosts"
  /\ i' = 1
  /\ UNCHANGED <<exitCode, err, rootChecked, handover_after, ndnd_bin, files, buildV,
                 linkStatus, daemonV, waitV, cmds, cmdFailed, hoV, cleanV, allocV>>

\* line 178: one net.addHost(name) of the dict comprehension
AddHost ==
  /\ pc = "hosts"
  /\ hosts' = hosts \cup {NodeOrder[i]}
  /\ IF i = Len(NodeOrder) THEN pc' = "links" /\ i' = 1
                           ELSE pc' = pc /\ i' = i + 1
  /\ UNCHANGED <<exitCode, err, rootChecked, handover_after, ndnd_bin, files, links,
                 subnet_idx, linkStatus, net, daemonV, waitV, cmds, cmdFailed, hoV, cleanV, allocV>>

\* lines 183-225: add_p2p(a, b, kind=...) ; the new interfaces come up configured.
add_p2p(a, b, kind) ==
  LET sub == _alloc_p2p_subnet(subnet_idx)
  IN /\ subnet_idx' = subnet_idx + 1
     /\ links' = Append(links, [a |-> a, b |-> b, a_ip |-> sub.ip1,
                                b_ip |-> sub.ip2, cidr |-> sub.cidr,
                                kind |-> kind])
     /\ linkStatus' = Append(linkStatus, "up")

\* lines 228-235: the i-th add_p2p call
AddLink ==
  /\ pc = "links"
  /\ add_p2p(LinkPlan[i].a, LinkPlan[i].b, LinkPlan[i].kind)
  /\ IF i = Len(LinkPlan) THEN pc' = "start" /\ i' = 1
                          ELSE pc' = pc /\ i' = i + 1
  /\ UNCHANGED <<exitCode, err, rootChecked, handover_after, ndnd_bin, files, hosts, net,
                 daemonV, waitV, cmds, cmdFailed, hoV, cleanV, allocV>>

\* line 237: net.start()
NetStart ==
  /\ pc = "start"
  /\ net' = "started"
  /\ pc' = "cfg1"
  /\ UNCHANGED <<exitCode, err, rootChecked, handover_after, ndnd_bin, files, buildV,
                 linkStatus, daemonV, i, waitV, cmds, cmdFailed, hoV, cleanV, allocV>>

\* Index set of the links between two nodes (node.connectionsTo).
LinksBetween(x, y) ==
  {k \in 1..Len(links) : {links[k].a, links[k].b} = {x, y}}

\* net.configLinkStatus(src, dst, status): the new status list.  On a network
\* that was stopped the interfaces are gone and nothing changes.
configLinkStatus(src, dst, status) ==
  IF net = "stopped" THEN linkStatus
  ELSE [k \in 1..Len(linkStatus) |->
          IF k \in LinksBetween(src, dst) THEN status ELSE linkStatus[k]]

\* line 240: net.configLinkStatus("g1", "s2", "down")
InitDown1 ==
  /\ pc = "cfg1"
  /\ linkStatus' = configLinkStatus("g1", "s2", "down")
  /\ pc' = "cfg2"
  /\ UNCHANGED <<exitCode, err, rootChecked, handover_after, ndnd_bin, files, buildV, net,
                 daemonV, i, waitV, cmds, cmdFailed, hoV, cleanV, allocV>>

\* Mutant of InitDown2: the second initial configLinkStatus call is missing.
InitDown2_Missing ==
  /\ pc = "cfg2"
  /\ procs' = {}
  /\ pc' = "unlink"
  /\ i' = 1
  /\ UNCHANGED <<exitCode, err, argV, files, buildV, linkStatus, net,
                 running, socks, waitV, cmds, cmdFailed, hoV, cleanV, allocV>>

\* lines 241-243: net.configLinkStatus("g2", "s2", "down"); procs = {}
InitDown2 ==
  /\ pc = "cfg2"
  /\ linkStatus' = configLinkStatus("g2", "s2", "down")
  /\ procs' = {}
  /\ pc' = "unlink"
  /\ i' = 1
  /\ UNCHANGED <<exitCode, err, rootChecked, handover_after, ndnd_bin, files, buildV, net,
                 running, socks, waitV, cmds, cmdFailed, hoV, cleanV, allocV>>

\* ------------------------------------------------------- daemon start
\* Mutant of Unlink: a socket left by an earlier run is not removed.
Unlink_Keep ==
  /\ pc = "unlink"
  /\ pc' = "conf"
  /\ UNCHANGED <<exitCode, err, argV, files, buildV, linkStatus, net, procs,
                 running, socks, i, waitV, cmds, cmdFailed, hoV, cleanV, allocV>>

\* line 265: sock_path = os.path.join(state_dir, f"{name}.sock"), as the
\* sequence of its characters (state_dir is one token, it has no trailing /).
NameChars(n) ==
  CASE n = "g1" -> <<"g", "1">>
    [] n = "g2" -> <<"g", "2">>
    [] n = "s1" -> <<"s", "1">>
    [] n = "s2" -> <<"s", "2">>
    [] n = "s3" -> <<"s", "3">>
SockPath(n) == <<"state_dir", "/">> \o NameChars(n) \o <<".", "s", "o", "c", "k">>

\* lines 264-271: os.unlink(sock_path), FileNotFoundError ignored
Unlink ==
  /\ pc = "unlink"
  /\ socks' = socks \ {NodeOrder[i]}
  /\ pc' = "conf"
  /\ UNCHANGED <<exitCode, err, argV, files, buildV, linkStatus, net, procs,
                 running, i, waitV, cmds, cmdFailed, hoV, cleanV, allocV>>

\* lines 273-279: _write_combined_conf(...)
WriteConf ==
  /\ pc = "conf"
  /\ files' = files \cup {<<NodeOrder[i], "yml">>}
  /\ pc' = "popen"
  /\ UNCHANGED <<exitCode, err, argV, buildV, linkStatus, net, daemonV, i,
                 waitV, cmds, cmdFailed, hoV, cleanV, allocV>>

\* line 280: procs[name] = nodes[name].popen(... >log 2>&1, shell=True)
Popen ==
  /\ pc = "popen"
  /\ procs' = procs \cup {NodeOrder[i]}
  /\ running' = running \cup {NodeOrder[i]}
  /\ files' = files \cup {<<NodeOrder[i], "log">>}
  /\ IF i = Len(NodeOrder) THEN pc' = "deadline" /\ i' = 1
                           ELSE pc' = "unlink" /\ i' = i + 1
  /\ UNCHANGED <<exitCode, err, argV, buildV, linkStatus, net, socks, waitV,
                 cmds, cmdFailed, hoV, cleanV, allocV>>

\* The daemon of node n (black box) creates its control socket.
DaemonReady(n) ==
  /\ pc # "exit"
  /\ n \in running
  /\ n \notin socks
  /\ socks' = socks \cup {n}
  /\ UNCHANGED <<pc, exitCode, err, argV, files, buildV, linkStatus, net,
                 procs, running, i, waitV, cmds, cmdFailed, hoV, cleanV, allocV>>

\* ------------------------------------------------------- readiness wait
\* lines 283-284: deadline = time.time() + 8; missing = []
SetDeadline ==
  /\ pc = "deadline"
  /\ polls' = 0
  /\ missing' = <<>>
  /\ pc' = "poll"
  /\ UNCHANGED <<exitCode, err, argV, files, buildV, linkStatus, net, daemonV,
                 i, warned, cmds, cmdFailed, hoV, cleanV, allocV>>

\* Mutant of Poll: the loop has no break, it polls until the deadline.
Poll_NoBreak ==
  /\ pc = "poll"
  /\ IF polls < MaxPolls
       THEN /\ missing' = SelectSeq(NodeOrder, LAMBDA n : n \notin socks)
            /\ pc' = pc
            /\ polls' = polls + 1
       ELSE pc' = "warn" /\ UNCHANGED <<missing, polls>>
  /\ UNCHANGED <<exitCode, err, argV, files, buildV, linkStatus, net, daemonV,
                 i, warned, cmds, cmdFailed, hoV, cleanV, allocV>>

\* lines 285-289: one evaluation of the while condition and, if it holds, one
\* pass of the body; every sleep(0.1) uses up one poll interval of the 8 s.
Poll ==
  /\ pc = "poll"
  /\ IF polls < MaxPolls
       THEN LET m == SelectSeq(NodeOrder, LAMBDA n : n \notin socks)
            IN /\ missing' = m
               /\ IF m = <<>> THEN pc' = "warn" /\ polls' = polls
                              ELSE pc' = pc /\ polls' = polls + 1
       ELSE pc' = "warn" /\ UNCHANGED <<missing, polls>>
  /\ UNCHANGED <<exitCode, err, argV, files, buildV, linkStatus, net, daemonV,
                 i, warned, cmds, cmdFailed, hoV, cleanV, allocV>>

\* lines 290-291: if missing: warn(...) ; missing and deadline are not read
\* afterwards
\* Mutant of Warn: daemons that are not ready abort the run.
Warn_Fatal ==
  /\ pc = "warn"
  /\ IF missing # <<>>
       THEN /\ Throw("Exception")
            /\ UNCHANGED <<warned>>
       ELSE /\ warned' = FALSE
            /\ missing' = <<>>
            /\ polls' = 0
            /\ pc' = "linkA"
            /\ i' = 1
            /\ UNCHANGED <<exitCode, err, hpc, cleanV>>
  /\ UNCHANGED <<argV, files, buildV, linkStatus, net, daemonV, cmds, cmdFailed,
                 hi, announced, stopTried, downTried, allocV>>

Warn ==
  /\ pc = "warn"
  /\ warned' = (missing # <<>>)
  /\ missing' = <<>>
  /\ polls' = 0
  /\ pc' = "linkA"
  /\ i' = 1
  /\ UNCHANGED <<exitCode, err, argV, files, buildV, linkStatus, net, daemonV,
                 cmds, cmdFailed, hoV, cleanV, allocV>>

\* ------------------------------------------------------- neighbor linking
\* One `ndndctl dv link-create udp://<peer>:<port> ... || true` on a node.
LinkCreate(on, peer, by) == [on |-> on, peer |-> peer, by |-> by]

\* node.cmd(...) runs the command: the wrapper (lines 85-102) fails when the
\* node's socket does not exist, the daemon may refuse otherwise; `|| true`
\* hides the status, the caller goes on either way.
Issue(on, peer, by) ==
  \E ok \in BOOLEAN :
    /\ on \notin socks => ~ok
    /\ cmds' = cmds \cup {LinkCreate(on, peer, by)}
    /\ cmdFailed' = (cmdFailed \/ ~ok)

\* Mutant of InitialSkip: the initial loop skips g1-s2 only.
InitialSkip_OnlyG1(l) == {l.a, l.b} = {"g1", "s2"}

\* Line 303: the links the initial loop skips.
InitialSkip(l) == {l.a, l.b} = {"g1", "s2"} \/ {l.a, l.b} = {"g2", "s2"}

\* The first index >= k of a link the initial loop does not skip, 0 if none.
NextInitial(k) ==
  LET S == {j \in k..Len(links) : ~InitialSkip(links[j])}
  IN IF S = {} THEN 0 ELSE CHOOSE j \in S : \A m \in S : j <= m

\* lines 297-305: the loop runs on to the next link it does not skip and
\* issues the command on its endpoint a, or ends
LinkA ==
  /\ pc = "linkA"
  /\ LET k == NextInitial(i)
     IN IF k = 0
          THEN /\ UNCHANGED <<cmds, cmdFailed>>
               /\ pc' = "spawn"
               /\ i' = 1
          ELSE /\ Issue(links[k].a, links[k].b_ip, "main")
               /\ pc' = "linkB"
               /\ i' = k
  /\ UNCHANGED <<exitCode, err, argV, files, buildV, linkStatus, net, daemonV,
                 waitV, hoV, cleanV, allocV>>

\* line 306: the command on endpoint b
LinkB ==
  /\ pc = "linkB"
  /\ Issue(links[i].b, links[i].a_ip, "main")
  /\ pc' = "linkA"
  /\ i' = i + 1
  /\ UNCHANGED <<exitCode, err, argV, files, buildV, linkStatus, net, daemonV,
                 waitV, hoV, cleanV, allocV>>

\* ------------------------------------------------------- handover arming
\* Mutant of Spawn: the thread is started whatever the delay.
Spawn_Always ==
  /\ pc = "spawn"
  /\ hpc' = "sleep"
  /\ pc' = "run"
  /\ UNCHANGED <<exitCode, err, argV, files, buildV, linkStatus, net, daemonV,
                 i, waitV, cmds, cmdFailed, hi, announced, cleanV, allocV>>

\* lines 308-328: if args.handover_after > 0: Thread(target=handover).start()
Spawn ==
  /\ pc = "spawn"
  /\ hpc' = IF handover_after > 0 THEN "sleep" ELSE hpc
  /\ pc' = "run"
  /\ UNCHANGED <<exitCode, err, argV, files, buildV, linkStatus, net, daemonV,
                 i, waitV, cmds, cmdFailed, hi, announced, cleanV, allocV>>

\* lines 336-341: if args.cli: CLI(net) else: sleep forever
Run ==
  /\ pc = "run"
  /\ \E cli \in BOOLEAN : pc' = IF cli THEN "cli" ELSE "sleep"
  /\ UNCHANGED <<exitCode, err, argV, files, buildV, linkStatus, net, daemonV,
                 i, waitV, cmds, cmdFailed, hoV, cleanV, allocV>>

\* line 337: CLI(net) returns (the user leaves the shell); finally runs.
CliExit ==
  /\ pc = "cli"
  /\ EnterCleanup("none")
  /\ UNCHANGED <<exitCode, argV, files, buildV, linkStatus, net, daemonV,
                 warned, cmds, cmdFailed, hoV, stopTried, downTried, allocV>>

\* ------------------------------------------------------- exceptions
\* SIGINT: KeyboardInterrupt is raised in the control thread at its current
\* statement (the interrupt that ends the run; cleanup itself is not
\* interrupted again).
Interrupt ==
  /\ pc \in PreTryPcs \cup TryPcs
  /\ Throw("KeyboardInterrupt")
  /\ UNCHANGED <<argV, files, buildV, linkStatus, net, daemonV, warned, cmds, cmdFailed,
                 hi, announced, stopTried, downTried, allocV>>

\* Statements that call into the OS or the substrate and may raise.
FailPcs == {"mkdir", "wrapper", "mininet", "hosts", "links", "start", "cfg1",
            "cfg2", "unlink", "conf", "popen"}

\* The current statement raises an error (OSError, a Mininet failure, ...).
StepFails ==
  /\ pc \in FailPcs
  /\ Throw("Exception")
  /\ UNCHANGED <<argV, files, buildV, linkStatus, net, daemonV, warned, cmds, cmdFailed,
                 hi, announced, stopTried, downTried, allocV>>

\* ------------------------------------------------------- cleanup
\* line 248: proc.send_signal(signal.SIGTERM) returns or raises
CleanupTerm ==
  /\ pc = "cleanup" /\ cpc = "term"
  /\ stopTried' = stopTried \cup {todo[i]}
  /\ \E r \in {"ok", "raised"} :
       /\ cur' = [cur EXCEPT !.term = r]
       /\ cpc' = IF r = "ok" THEN "wait" ELSE "kill"
  /\ UNCHANGED <<pc, exitCode, err, argV, files, buildV, linkStatus, net,
                 daemonV, i, waitV, cmds, cmdFailed, hoV, todo, downTried, allocV>>

\* line 249: proc.wait(timeout=2): the process is gone within 2 s (a daemon
\* that exits on SIGTERM closes its listener, which removes the socket path),
\* or subprocess.TimeoutExpired is raised.
CleanupWait ==
  /\ pc = "cleanup" /\ cpc = "wait"
  /\ \/ /\ cur' = [cur EXCEPT !.wait = "exited"]
        /\ cpc' = "pop"
        /\ running' = running \ {todo[i]}
        /\ socks' = IF todo[i] \in running THEN socks \ {todo[i]} ELSE socks
     \/ /\ todo[i] \in running
        /\ cur' = [cur EXCEPT !.wait = "timeout"]
        /\ cpc' = "kill"
        /\ UNCHANGED <<running, socks>>
  /\ UNCHANGED <<pc, exitCode, err, argV, files, buildV, linkStatus, net,
                 procs, i, waitV, cmds, cmdFailed, hoV, todo, stopTried, downTried, allocV>>

\* Mutant of CleanupKill: an error of proc.kill() is not caught and leaves
\* cleanup and main.
CleanupKill_Propagates ==
  /\ pc = "cleanup" /\ cpc = "kill"
  /\ \E r \in {"ok", "raised"} :
       /\ cur' = [cur EXCEPT !.kill = r]
       /\ running' = IF r = "ok" THEN running \ {todo[i]} ELSE running
       /\ IF r = "ok"
            THEN cpc' = "pop" /\ UNCHANGED <<pc, exitCode, err>>
            ELSE cpc' = cpc /\ pc' = "exit" /\ exitCode' = 1 /\ err' = "Exception"
  /\ UNCHANGED <<argV, files, buildV, linkStatus, net,
                 procs, socks, i, waitV, cmds, cmdFailed, hoV, todo, stopTried, downTried, allocV>>

\* lines 250-254: except Exception: try: proc.kill() except Exception: pass
CleanupKill ==
  /\ pc = "cleanup" /\ cpc = "kill"
  /\ \E r \in {"ok", "raised"} :
       /\ cur' = [cur EXCEPT !.kill = r]
       /\ running' = IF r = "ok" THEN running \ {todo[i]} ELSE running
  /\ cpc' = "pop"
  /\ UNCHANGED <<pc, exitCode, err, argV, files, buildV, linkStatus, net,
                 procs, socks, i, waitV, cmds, cmdFailed, hoV, todo, stopTried, downTried, allocV>>

\* Mutant of CleanupPop: the pop sits inside the try, so it is skipped when
\* the except branch ran.
CleanupPop_InTry ==
  /\ pc = "cleanup" /\ cpc = "pop"
  /\ procs' = IF cur.kill = "no" THEN procs \ {todo[i]} ELSE procs
  /\ cur' = NoCur
  /\ cpc' = "term"
  /\ IF i = Len(todo) THEN pc' = "netstop" /\ i' = 1
                      ELSE pc' = pc /\ i' = i + 1
  /\ UNCHANGED <<exitCode, err, argV, files, buildV, linkStatus, net, running,
                 socks, waitV, cmds, cmdFailed, hoV, todo, stopTried, downTried, allocV>>

\* line 255: procs.pop(name, None), then the next item of the snapshot
CleanupPop ==
  /\ pc = "cleanup" /\ cpc = "pop"
  /\ procs' = procs \ {todo[i]}
  /\ cur' = NoCur
  /\ cpc' = "term"
  /\ IF i = Len(todo) THEN pc' = "netstop" /\ i' = 1
                      ELSE pc' = pc /\ i' = i + 1
  /\ UNCHANGED <<exitCode, err, argV, files, buildV, linkStatus, net, running,
                 socks, waitV, cmds, cmdFailed, hoV, todo, stopTried, downTried, allocV>>

\* lines 256-259: try: net.stop() except Exception: pass
NetStop ==
  /\ pc = "netstop"
  /\ downTried' = TRUE
  /\ \E r \in {"ok", "raised"} :
       IF r = "ok"
         THEN /\ net' = "stopped"
              /\ linkStatus' = [k \in 1..Len(linkStatus) |-> "removed"]
         ELSE UNCHANGED <<net, linkStatus>>
  /\ pc' = "finish"
  /\ UNCHANGED <<exitCode, err, argV, files, buildV, daemonV, i, waitV, cmds, cmdFailed,
                 hoV, todo, cpc, cur, stopTried, allocV>>

\* After the finally block: a pending exception propagates (exit status 1),
\* otherwise main returns (exit status 0).
Finish ==
  /\ pc = "finish"
  /\ ProcessExit(IF err = "none" THEN 0 ELSE 1)
  /\ UNCHANGED <<err, argV, files, buildV, linkStatus, net, daemonV, i, waitV,
                 cmds, cmdFailed, hi, announced, cleanV, allocV>>

\* ------------------------------------------------------- handover thread
HandoverLive == hpc \notin {"none", "done", "dead"} /\ pc # "exit"

\* line 310: time.sleep(args.handover_after) returns
HandoverWake ==
  /\ HandoverLive /\ hpc = "sleep"
  /\ hpc' = "log"
  /\ UNCHANGED <<pc, exitCode, err, argV, files, buildV, linkStatus, net,
                 daemonV, i, waitV, cmds, cmdFailed, hi, announced, cleanV, allocV>>

\* line 311: info("*** Handover: switching ...")
HandoverLog ==
  /\ HandoverLive /\ hpc = "log"
  /\ announced' = TRUE
  /\ hpc' = "cfg1"
  /\ UNCHANGED <<pc, exitCode, err, argV, files, buildV, linkStatus, net,
                 daemonV, i, waitV, cmds, cmdFailed, hi, cleanV, allocV>>

\* Mutant of HandoverPlan: the first call takes the backbone link s1-s2 down.
HandoverPlan_Backbone ==
  << [a |-> "s1", b |-> "s2", status |-> "down"],
     [a |-> "g1", b |-> "s2", status |-> "up"],
     [a |-> "g2", b |-> "s3", status |-> "down"],
     [a |-> "g2", b |-> "s2", status |-> "up"] >>

\* Mutant of HandoverPlan: the g1-s2 link is never brought up.
HandoverPlan_NoUp ==
  << [a |-> "g1", b |-> "s1", status |-> "down"],
     [a |-> "g1", b |-> "s2", status |-> "down"],
     [a |-> "g2", b |-> "s3", status |-> "down"],
     [a |-> "g2", b |-> "s2", status |-> "up"] >>

\* lines 312-315: the four configLinkStatus calls, in program order
HandoverPlan ==
  << [a |-> "g1", b |-> "s1", status |-> "down"],
     [a |-> "g1", b |-> "s2", status |-> "up"],
     [a |-> "g2", b |-> "s3", status |-> "down"],
     [a |-> "g2", b |-> "s2", status |-> "up"] >>

HandoverCfgPc == <<"cfg1", "cfg2", "cfg3", "cfg4", "loop">>

HandoverCfg(k) ==
  /\ HandoverLive /\ hpc = HandoverCfgPc[k]
  /\ linkStatus' = configLinkStatus(HandoverPlan[k].a, HandoverPlan[k].b,
                                    HandoverPlan[k].status)
  /\ hpc' = HandoverCfgPc[k + 1]
  /\ hi' = 1
  /\ UNCHANGED <<pc, exitCode, err, argV, files, buildV, net, daemonV, i,
                 waitV, cmds, cmdFailed, announced, cleanV, allocV>>

\* Mutant of HandoverRelink: the handover loop re-links every access link.
HandoverRelink_Access(l) == l.kind = "access"

\* Line 321: the links the handover loop re-links.
HandoverRelink(l) == {l.a, l.b} \in {{"g1", "s2"}, {"g2", "s2"}}

\* The first index >= k of a link the handover loop re-links, 0 if none.
NextRelink(k) ==
  LET S == {j \in k..Len(links) : HandoverRelink(links[j])}
  IN IF S = {} THEN 0 ELSE CHOOSE j \in S : \A m \in S : j <= m

\* lines 318-325: the loop runs on to the next link that passes the filter and
\* issues the command on its endpoint a, or ends
HandoverLinkA ==
  /\ HandoverLive /\ hpc = "loop"
  /\ LET k == NextRelink(hi)
     IN IF k = 0
          THEN /\ UNCHANGED <<cmds, cmdFailed>>
               /\ hpc' = "done"
               /\ hi' = 1
          ELSE /\ Issue(links[k].a, links[k].b_ip, "handover")
               /\ hpc' = "cmdB"
               /\ hi' = k
  /\ UNCHANGED <<pc, exitCode, err, argV, files, buildV, linkStatus, net,
                 daemonV, i, waitV, announced, cleanV, allocV>>

\* line 326: the command on endpoint b
HandoverLinkB ==
  /\ HandoverLive /\ hpc = "cmdB"
  /\ Issue(links[hi].b, links[hi].a_ip, "handover")
  /\ hpc' = "loop"
  /\ hi' = hi + 1
  /\ UNCHANGED <<pc, exitCode, err, argV, files, buildV, linkStatus, net,
                 daemonV, i, waitV, announced, cleanV, allocV>>

\* A Mininet call of the handover thread on a network that net.stop() has
\* torn down raises (the hosts' shells are gone): the thread ends.
HandoverDies ==
  /\ HandoverLive /\ hpc \in {"cfg1", "cfg2", "cfg3", "cfg4", "loop", "cmdB"}
  /\ net = "stopped"
  /\ hpc' = "dead"
  /\ UNCHANGED <<pc, exitCode, err, argV, files, buildV, linkStatus, net,
                 daemonV, i, waitV, cmds, cmdFailed, hi, announced, cleanV, allocV>>

\* ------------------------------------------------------- specification
Next ==
  \/ EnsureRoot \/ FindNdnd \/ MakeStateDir \/ WriteWrapper
  \/ NewMininet \/ AddHost \/ AddLink \/ NetStart \/ InitDown1 \/ InitDown2
  \/ Unlink \/ WriteConf \/ Popen
  \/ \E n \in Nodes : DaemonReady(n)
  \/ SetDeadline \/ Poll \/ Warn
  \/ LinkA \/ LinkB \/ Spawn \/ Run \/ CliExit
  \/ Interrupt \/ StepFails
  \/ CleanupTerm \/ CleanupWait \/ CleanupKill \/ CleanupPop \/ NetStop \/ Finish
  \/ HandoverWake \/ HandoverLog
  \/ \E k \in 1..Len(HandoverPlan) : HandoverCfg(k)
  \/ HandoverLinkA \/ HandoverLinkB \/ HandoverDies

Spec == Init /\ [][Next]_vars

\* ------------------------------------------------------- the allocator alone
\* Indices with a third octet above 255 start here (third = index // 64).
Capacity == 256 * 64

\* Arguments the allocator is applied to: the first indices, the last two of
\* the address space and some beyond it.
AllocInputs == (0..MaxIndex) \cup {Capacity - 1, Capacity, Capacity + 64}

\* A call _alloc_p2p_subnet(index): the function has no raise statement and
\* Python integers do not overflow, so every call returns its tuple.
AllocCall(index) == [raised |-> "none", value |-> _alloc_p2p_subnet(index)]

\* The state of main when its six add_p2p calls begin (line 228), and two
\* indices chosen for the allocator.
AllocInit ==
  /\ pc = "links"
  /\ exitCode = -1
  /\ err = "none"
  /\ rootChecked = TRUE
  /\ handover_after \in {0, HandoverDelay}
  /\ ndnd_bin = "path"
  /\ files = {<<"", "dir">>, <<"", "ndndctl">>}
  /\ hosts = Nodes
  /\ links = <<>>
  /\ subnet_idx = 0
  /\ linkStatus = <<>>
  /\ net = "built"
  /\ procs = {}
  /\ running = {}
  /\ socks = {}
  /\ i = 1
  /\ polls = 0
  /\ missing = <<>>
  /\ warned = FALSE
  /\ cmds = {}
  /\ cmdFailed = FALSE
  /\ hpc = "none"
  /\ hi = 1
  /\ announced = FALSE
  /\ todo = <<>>
  /\ cpc = "term"
  /\ cur = NoCur
  /\ stopTried = {}
  /\ downTried = FALSE
  /\ apc = "in"
  /\ ai \in AllocInputs
  /\ aj \in AllocInputs
  /\ ares = <<>>

\* _alloc_p2p_subnet is applied to the two indices.
AllocApply ==
  /\ apc = "in"
  /\ ares' = <<AllocCall(ai), AllocCall(aj)>>
  /\ apc' = "out"
  /\ UNCHANGED <<ai, aj, pc, exitCode, err, argV, files, buildV, linkStatus,
                 net, daemonV, i, waitV, cmds, cmdFailed, hoV, cleanV>>

AllocNext == AllocApply \/ AddLink

AllocSpec == AllocInit /\ [][AllocNext]_vars

\* ===================================================== properties
\* Observers used by the properties below.
StatusOf(x, y) ==
  IF LinksBetween(x, y) = {} THEN "absent"
  ELSE linkStatus[CHOOSE k \in LinksBetween(x, y) : TRUE]

AccessLinks(g) ==
  {k \in 1..Len(links) : links[k].kind = "access" /\ g \in {links[k].a, links[k].b}}

UpAccess(g) == {k \in AccessLinks(g) : linkStatus[k] = "up"}

OneUpEach == \A g \in Ground : Cardinality(UpAccess(g)) = 1

\* main is inside the try block or past it (cleanup, or exit through cleanup):
\* the topology build, lines 177-243, has completed.
BuildDone ==
  \/ pc \in TryPcs \cup {"cleanup", "netstop", "finish"}
  \/ pc = "exit" /\ downTried

\* The network is started and cleanup has not attempted the teardown.
NetUp == net = "started" /\ ~downTried

\* cleanup() has been entered and the process has not exited yet.
InCleanup == pc \in {"cleanup", "netstop", "finish"}

\* The handover thread has made some but not all of its configLinkStatus calls.
HandoverPartial == hpc \in {"cfg2", "cfg3", "cfg4"}

\* The handover thread has made all four configLinkStatus calls.
HandoverApplied == hpc \in {"loop", "cmdB", "done"}

Switched ==
  /\ StatusOf("g1", "s2") = "up" /\ StatusOf("g2", "s2") = "up"
  /\ StatusOf("g1", "s1") = "down" /\ StatusOf("g2", "s3") = "down"

\* ----------------------------------------------------------------- C1
\* C1 as stated: in every state from net.start until teardown, each ground
\* node has exactly one access link up.  Fails between net.start and the
\* initial configLinkStatus calls (two up) and inside the handover (none up).
C1_AlwaysOneUp == NetUp => OneUpEach

\* C1 amended: once the initial configuration is complete and until the
\* teardown is attempted,
\* each ground node has exactly one access link up in every state in which
\* the handover is not partway through its four configLinkStatus calls.
C1_SteadyOneUp ==
  (NetUp /\ BuildDone /\ ~HandoverPartial) => OneUpEach

\* The handover has made all four calls and the network is still up.
C1_Witness == NetUp /\ hpc = "done" /\ pc = "sleep" /\ OneUpEach

\* ----------------------------------------------------------------- C2
\* C2: after topology build exactly six links exist, two backbone
\* (s1-s2, s2-s3) and four access (g1-s1, g1-s2, g2-s2, g2-s3); until the
\* handover touches them exactly the access links g1-s2 and g2-s2 are down
\* and every ground node has exactly one access link up.
C2_AfterBuild ==
  BuildDone =>
    /\ Len(links) = 6
    /\ {<<{links[k].a, links[k].b}, links[k].kind>> : k \in 1..Len(links)} =
         { <<{"s1", "s2"}, "isl">>, <<{"s2", "s3"}, "isl">>,
           <<{"g1", "s1"}, "access">>, <<{"g1", "s2"}, "access">>,
           <<{"g2", "s2"}, "access">>, <<{"g2", "s3"}, "access">> }
    /\ (NetUp /\ hpc \in {"none", "sleep", "log", "cfg1"}) =>
         /\ {{links[k].a, links[k].b} : k \in {j \in 1..Len(links) : linkStatus[j] = "down"}}
              = {{"g1", "s2"}, {"g2", "s2"}}
         /\ OneUpEach

\* The state right after the last initial configLinkStatus call.
C2_Witness == pc = "unlink" /\ i = 1 /\ procs = {} /\ NetUp

\* ----------------------------------------------------------------- C3
\* C3: when the handover has made its four calls (and the teardown has not
\* begun), g1-s2 and g2-s2 are up, g1-s1 and g2-s3 are down, and every
\* ground node has exactly one access link up.
C3_AfterHandover ==
  (HandoverApplied /\ NetUp) => (Switched /\ OneUpEach)

\* The handover has run to its end on a live network.
C3_Witness == hpc = "done" /\ NetUp /\ Switched

\* ----------------------------------------------------------------- C4
\* C4: the handover is armed at most once and never re-armed, is never armed
\* or run when the delay is zero, and once the statuses are switched they are
\* not flipped back (they change only by the teardown removing the links).
C4_Once ==
  /\ [](handover_after = 0 => (hpc = "none" /\ ~announced))
  /\ [][(hpc # "none" => hpc' # "none") /\
        (hpc \notin {"none", "sleep"} => hpc' \notin {"none", "sleep"})]_vars
  /\ [][(HandoverApplied /\ Switched) => (Switched' \/ net' = "stopped")]_vars

\* A run with no delay has reached the idle sleep without a handover thread.
C4_Witness == handover_after = 0 /\ pc = "sleep" /\ hpc = "none"

\* ----------------------------------------------------------------- C5
\* C5 as stated: once cleanup has begun the handover thread changes no link
\* status and issues no neighbor-create command.
C5_HandoverStopped ==
  [][(InCleanup /\ hpc' # hpc) => (linkStatus' = linkStatus /\ cmds' = cmds)]_vars

\* ----------------------------------------------------------------- C6
\* C6 as stated: on every exit path taken after a substrate node or a daemon
\* process was created, every tracked daemon was stopped and the substrate
\* teardown was attempted.
C6_CleanupOnEveryExit ==
  (pc = "exit" /\ (hosts # {} \/ running # {} \/ stopTried # {})) =>
    (downTried /\ procs = {})

\* ----------------------------------------------------------------- C7
\* C7: whatever stop steps fail, cleanup attempts to stop every daemon of its
\* snapshot, then attempts the teardown, and neither failure propagates: the
\* exit status is decided by the exception pending before cleanup alone.
C7_CleanupTotal ==
  /\ pc \in {"netstop", "finish"} => stopTried = {todo[k] : k \in 1..Len(todo)}
  /\ pc = "finish" => downTried
  /\ (pc = "exit" /\ (todo # <<>> \/ downTried)) =>
       /\ stopTried = {todo[k] : k \in 1..Len(todo)}
       /\ downTried
       /\ exitCode = IF err = "none" THEN 0 ELSE 1

\* Cleanup ran to the end although a kill failed (that daemon still runs) and
\* the teardown failed (the network is still up).
C7_Witness ==
  /\ pc = "exit" /\ downTried /\ net = "started"
  /\ stopTried = Nodes /\ running # {} /\ exitCode = 0

\* ----------------------------------------------------------------- C8
\* C8 as stated: after cleanup no daemon process is running or tracked and
\* no node's control-socket path exists.
C8_NothingLeft ==
  (pc = "exit" /\ downTried) => (procs = {} /\ running = {} /\ socks = {})

\* ----------------------------------------------------------------- C9
\* C9: for each daemon cleanup sends SIGTERM first, waits only after the
\* signal was sent, kills only when the signal or the wait failed (never after
\* the wait reported the exit), and pops the daemon in every outcome, so the
\* tracked set is empty after cleanup.
C9_StopProtocol ==
  /\ pc = "cleanup" =>
       /\ cur.wait # "no" => cur.term = "ok"
       /\ cur.kill # "no" => (cur.term = "raised" \/ cur.wait = "timeout")
       /\ cpc \in {"wait", "kill", "pop"} => cur.term # "no"
       /\ cpc = "pop" => (cur.wait = "exited" \/ cur.kill # "no")
       /\ {todo[k] : k \in 1..(i - 1)} \cap procs = {}
  /\ (pc \in {"netstop", "finish"} \/ (pc = "exit" /\ downTried)) => procs = {}

\* A daemon that ignored SIGTERM for the whole timeout was killed and is
\* about to be popped.
C9_Witness ==
  pc = "cleanup" /\ cpc = "pop" /\ cur.wait = "timeout" /\ cur.kill = "ok"

\* ----------------------------------------------------------------- C10
\* C10: a failed privilege check or an unresolved daemon binary ends the run
\* with a non-zero status before any node, link, daemon or file is created,
\* and the binary is resolved only after the privilege check has passed.
C10_PreflightAbort ==
  /\ err \in {"PermissionError", "FileNotFoundError"} =>
       /\ pc = "exit" /\ exitCode > 0
       /\ net = "none" /\ hosts = {} /\ links = <<>>
       /\ procs = {} /\ running = {} /\ files = {}
  /\ err = "PermissionError" => (~rootChecked /\ ndnd_bin = "unset")
  /\ (err = "FileNotFoundError" \/ ndnd_bin # "unset") => rootChecked
  /\ pc \notin {"root", "find", "exit"} => (rootChecked /\ ndnd_bin # "unset")

\* The run was aborted because the daemon binary could not be resolved.
C10_Witness == err = "FileNotFoundError" /\ pc = "exit"

\* ----------------------------------------------------------------- C11
\* A step of the readiness loop that runs its body (one poll).
PollStep ==
  pc = "poll" /\ polls < MaxPolls /\ (pc' = "warn" \/ polls' = polls + 1)

\* C11: the readiness wait ends within its deadline (every poll interval
\* slept is one of the MaxPolls the deadline allows), each poll sets the
\* reported list to the nodes whose socket does not exist at that poll, the
\* loop is left exactly when that list is empty or the deadline has elapsed,
\* and if no socket ever appeared all five nodes are reported.
C11_ReadinessWait ==
  /\ [](pc \in {"poll", "warn"} => polls <= MaxPolls)
  /\ [](pc = "warn" => (missing = <<>> \/ polls = MaxPolls))
  /\ [](pc = "warn" =>
          (Nodes \ socks) \subseteq {missing[k] : k \in 1..Len(missing)})
  /\ []((pc = "warn" /\ socks = {}) => missing = NodeOrder)
  /\ [][PollStep =>
          /\ missing' = SelectSeq(NodeOrder, LAMBDA n : n \notin socks)
          /\ (pc' = "warn") = (socks = Nodes)]_vars

\* The deadline elapsed without any node becoming ready: all five reported.
C11_Witness ==
  pc = "warn" /\ socks = {} /\ missing = NodeOrder /\ polls = MaxPolls

\* ------------------------------------------------------------------ C12
\* The statement after the readiness wait is left with stragglers.
WarnStep == pc = "warn" /\ missing # <<>> /\ pc' # pc
\* A link-create command fails in this step.
FailStep == cmdFailed' /\ ~cmdFailed
MainCmds == {c \in cmds : c.by = "main"}
HandoverCmds == {c \in cmds : c.by = "handover"}

\* C12: stragglers after the readiness wait and failing link-create commands
\* are not fatal.  Leaving the wait with stragglers raises nothing and stops
\* no daemon, and when the run goes on the warning has been logged; a failing
\* command changes neither the error nor the exit status, stops no daemon and
\* moves its loop to the next command.  Whatever was warned or failed, no
\* error is pending, all eight initial commands have been issued once the
\* initial loop is over, the handover thread has been started past line 328
\* when a delay is configured, and a finished handover has issued its four.
C12_NotFatal ==
  /\ [][WarnStep => /\ err' = "none" /\ exitCode' = -1
                    /\ procs' = procs /\ running' = running
                    /\ (pc' = "linkA" => warned')]_vars
  /\ [][FailStep => /\ err' = err /\ exitCode' = exitCode
                    /\ procs' = procs /\ running' = running
                    /\ (pc' # pc => pc' \in {"linkA", "linkB"})
                    /\ (hpc' # hpc => hpc' \in {"loop", "cmdB"})]_vars
  /\ []((warned \/ cmdFailed) => (err = "none" /\ exitCode \in {-1, 0}))
  /\ [](pc \in {"linkA", "linkB", "spawn", "run", "cli", "sleep"} => procs = Nodes)
  /\ [](pc \in {"spawn", "run", "cli", "sleep"} => Cardinality(MainCmds) = 8)
  /\ []((pc \in {"run", "cli", "sleep"} /\ handover_after > 0) => hpc # "none")
  /\ [](hpc = "done" => Cardinality(HandoverCmds) = 4)

C12_Witness ==
  /\ warned /\ cmdFailed
  /\ pc \in {"cli", "sleep"} /\ hpc = "done"
  /\ Cardinality(cmds) = 12
  /\ procs = Nodes /\ running = Nodes
  /\ err = "none" /\ exitCode = -1

\* ------------------------------------------------------------------ C13
\* The four commands of the handover: on each endpoint of g1-s2 (10.0.0.12/30)
\* and of g2-s2 (10.0.0.16/30), naming the other endpoint's address.
HandoverExpected ==
  { LinkCreate("g1", <<10, 0, 0, 14>>, "handover"),
    LinkCreate("s2", <<10, 0, 0, 13>>, "handover"),
    LinkCreate("g2", <<10, 0, 0, 18>>, "handover"),
    LinkCreate("s2", <<10, 0, 0, 17>>, "handover") }

\* The handover thread issues a command in this step.
HandoverIssue == hpc \in {"loop", "cmdB"} /\ hpc' \in {"loop", "cmdB"} /\ hpc' # hpc

\* C13: the handover issues link-create commands for g1-s2 and g2-s2 only,
\* one per endpoint naming the peer's address on that link, none twice, all
\* four once it has finished, and none before both configLinkStatus(..., "up")
\* calls have been made (both links are up while the network stands).
C13_HandoverCmds ==
  /\ [](HandoverCmds \subseteq HandoverExpected)
  /\ [](hpc = "done" => HandoverCmds = HandoverExpected)
  /\ [](HandoverCmds # {} => hpc \in {"loop", "cmdB", "done", "dead"})
  /\ []((HandoverCmds # {} /\ NetUp) =>
          (StatusOf("g1", "s2") = "up" /\ StatusOf("g2", "s2") = "up"))
  /\ [][HandoverIssue => /\ Cardinality(cmds') = Cardinality(cmds) + 1
                         /\ HandoverCmds' # HandoverCmds]_vars
  /\ [][HandoverCmds' # HandoverCmds => HandoverIssue]_vars

C13_Witness ==
  /\ hpc = "done" /\ HandoverCmds = HandoverExpected /\ Cardinality(HandoverCmds) = 4
  /\ NetUp /\ StatusOf("g1", "s2") = "up" /\ StatusOf("g2", "s2") = "up"

\* ------------------------------------------------------------------ C14
\* C14 as stated: once the handover log line has been emitted, all four link
\* status changes of the handover have been applied (while the network
\* stands).  The code logs at line 311, before the calls of lines 312-315.
C14_AnnouncedAfterSwitch == (announced /\ NetUp) => Switched

\* ------------------------------------------------------------------ C15
\* A dotted quad as a number, and the four addresses of the /30 an address
\* with prefix length 30 lies in.
Addr(t) == ((t[1] * 256 + t[2]) * 256 + t[3]) * 256 + t[4]
Block(cidr) ==
  LET base  == Addr(cidr)
      start == base - (base % 4)
  IN start .. (start + 3)
Octets(t) == \A k \in 1..4 : t[k] \in 0..255

\* One allocation is well formed: a /30 written by its base address, two
\* distinct host addresses inside it that are neither its network nor its
\* broadcast address.
WellFormed(r) ==
  /\ r.cidr[5] = 30 /\ Octets(r.cidr) /\ Octets(r.ip1) /\ Octets(r.ip2)
  /\ Addr(r.cidr) % 4 = 0
  /\ r.ip1 # r.ip2
  /\ {Addr(r.ip1), Addr(r.ip2)} \subseteq Block(r.cidr)
  /\ {Addr(r.ip1), Addr(r.ip2)} \cap {Addr(r.cidr), Addr(r.cidr) + 3} = {}

\* Two allocations share nothing.
Disjoint(r, q) ==
  /\ r.cidr # q.cidr
  /\ Block(r.cidr) \cap Block(q.cidr) = {}
  /\ {r.ip1, r.ip2} \cap {q.ip1, q.ip2} = {}

LinkAlloc(k) == [cidr |-> links[k].cidr, ip1 |-> links[k].a_ip, ip2 |-> links[k].b_ip]

\* C15: for indices below the capacity, every allocation is well formed and
\* the allocations of two different indices are disjoint; the links main
\* builds get the allocations of 0, 1, 2, ... in order, pairwise disjoint.
C15_SubnetsDisjoint ==
  /\ (apc = "out" /\ ai < Capacity /\ aj < Capacity) =>
       /\ ares[1].raised = "none" /\ ares[2].raised = "none"
       /\ WellFormed(ares[1].value) /\ WellFormed(ares[2].value)
       /\ (ai # aj => Disjoint(ares[1].value, ares[2].value))
       /\ (ai = aj => ares[1] = ares[2])
  /\ \A k \in 1..Len(links) :
       /\ LinkAlloc(k) = _alloc_p2p_subnet(k - 1)
       /\ WellFormed(LinkAlloc(k))
       /\ \A m \in 1..Len(links) : m # k => Disjoint(LinkAlloc(k), LinkAlloc(m))

C15_Witness ==
  /\ apc = "out" /\ ai = 63 /\ aj = 64
  /\ ares[1].value.cidr = <<10, 0, 0, 252, 30>>
  /\ ares[2].value.cidr = <<10, 0, 1, 0, 30>>
  /\ Len(links) = Len(LinkPlan)
  /\ links[Len(links)].cidr = <<10, 0, 0, 20, 30>>

\* ------------------------------------------------------------------ C16
\* C16 as stated: a call with an index at or above the capacity raises
\* CapacityExceeded.  The function checks nothing and returns 10.0.256.x.
C16_CapacityExceeded ==
  (apc = "out" /\ ai >= Capacity) => ares[1].raised = "CapacityExceeded"

\* ------------------------------------------------------------------ C17
\* The eight commands of the initial linking: on each endpoint of s1-s2,
\* s2-s3, g1-s1 and g2-s3, naming the other endpoint's address.
MainExpected ==
  { LinkCreate("s1", <<10, 0, 0, 2>>, "main"),  LinkCreate("s2", <<10, 0, 0, 1>>, "main"),
    LinkCreate("s2", <<10, 0, 0, 6>>, "main"),  LinkCreate("s3", <<10, 0, 0, 5>>, "main"),
    LinkCreate("g1", <<10, 0, 0, 10>>, "main"), LinkCreate("s1", <<10, 0, 0, 9>>, "main"),
    LinkCreate("g2", <<10, 0, 0, 22>>, "main"), LinkCreate("s3", <<10, 0, 0, 21>>, "main") }

\* Command c runs on one endpoint of link k and names the other's address.
CmdOf(c, k) ==
  \/ c.on = links[k].a /\ c.peer = links[k].b_ip
  \/ c.on = links[k].b /\ c.peer = links[k].a_ip

\* Link k has had a command from each of its endpoints.
LinkedBothEnds(k) ==
  /\ \E c \in cmds : c.on = links[k].a /\ c.peer = links[k].b_ip
  /\ \E c \in cmds : c.on = links[k].b /\ c.peer = links[k].a_ip

\* The control thread waits at the CLI or in its sleep loop and the handover
\* has not begun its status changes, or has finished.
Quiescent ==
  /\ pc \in {"run", "cli", "sleep"} /\ NetUp
  /\ hpc \in {"none", "sleep", "log", "cfg1", "done"}

\* C17: the initial loop issues exactly the eight commands of the four links
\* that are up, each at a moment its link is up, none twice and none for a
\* link that is down; in the quiescent states before and after the handover
\* every link that is up has had a command from each endpoint.
C17_InitialLinking ==
  /\ [](MainCmds \subseteq MainExpected)
  /\ [](pc \in {"spawn", "run", "cli", "sleep"} => MainCmds = MainExpected)
  /\ [][MainCmds' # MainCmds =>
          /\ pc \in {"linkA", "linkB"}
          /\ Cardinality(MainCmds') = Cardinality(MainCmds) + 1
          /\ \A c \in MainCmds' \ MainCmds :
               \E k \in 1..Len(links) : CmdOf(c, k) /\ linkStatus[k] = "up"]_vars
  /\ [][(pc \in {"linkA", "linkB"} /\ pc' \in {"linkA", "linkB"} /\ pc' # pc)
          => MainCmds' # MainCmds]_vars
  /\ [](Quiescent => \A k \in 1..Len(links) :
                        linkStatus[k] = "up" => LinkedBothEnds(k))

C17_Witness ==
  /\ Quiescent /\ hpc = "done" /\ Switched
  /\ MainCmds = MainExpected
  /\ \A k \in 1..Len(links) : linkStatus[k] = "up" => LinkedBothEnds(k)
  /\ \E k \in 1..Len(links) : linkStatus[k] = "down" /\ LinkedBothEnds(k)

\* ------------------------------------------------------------------ C18
\* The links named by the handover plan.
PlanLinks ==
  {k \in 1..Len(links) :
     \E p \in 1..Len(HandoverPlan) :
       {links[k].a, links[k].b} = {HandoverPlan[p].a, HandoverPlan[p].b}}

\* The handover thread has been started and its status changes are still to
\* come or under way.
HandoverPending == hpc \in {"sleep", "log", "cfg1", "cfg2", "cfg3", "cfg4"}

\* C18 as stated: while the handover thread's status changes are pending or
\* in progress, no step of the control thread changes or removes a link of
\* the handover plan.  net.stop() in cleanup (line 257) does.
C18_NoConcurrentMutation ==
  [][(HandoverPending /\ pc' # pc) =>
       \A k \in PlanLinks : linkStatus'[k] = linkStatus[k]]_vars

\* ------------------------------------------------------------------ C19
BackboneLinks == {k \in 1..Len(links) : links[k].kind = "isl"}
AccessLinkSet == {k \in 1..Len(links) : links[k].kind = "access"}

\* A step of the handover thread.
HandoverStep == hpc' # hpc /\ hpc # "none"

\* C19: a step of the handover thread changes nothing but the status of
\* access links: the links list (node pairs, subnets, addresses), the status
\* of the backbone links, the tracked daemons and the running daemons stay
\* as they are.  The two backbone links are up from the end of the build
\* until teardown is attempted, and a link once built is never altered;
\* a status change by the handover touches one access link at a time.
C19_HandoverFrame ==
  /\ [][HandoverStep =>
          /\ links' = links
          /\ procs' = procs /\ running' = running
          /\ Len(linkStatus') = Len(linkStatus)
          /\ \A k \in BackboneLinks : linkStatus'[k] = linkStatus[k]
          /\ Cardinality({k \in AccessLinkSet : linkStatus'[k] # linkStatus[k]}) <= 1]_vars
  /\ []((BuildDone /\ NetUp) =>
          /\ Cardinality(BackboneLinks) = 2
          /\ \A k \in BackboneLinks : linkStatus[k] = "up")
  /\ [][\A k \in 1..Len(links) : links'[k] = links[k]]_vars

C19_Witness ==
  /\ hpc = "done" /\ NetUp /\ Switched
  /\ Cardinality(BackboneLinks) = 2
  /\ \A k \in BackboneLinks : linkStatus[k] = "up"
  /\ procs = Nodes /\ running = Nodes
  /\ links[4].a = "g1" /\ links[4].b = "s2" /\ links[4].cidr = <<10, 0, 0, 12, 30>>

\* ------------------------------------------------------------------ C20
\* Position of a node in the start loop.
IndexOf(n) == CHOOSE k \in 1..Len(NodeOrder) : NodeOrder[k] = n

\* C20: a daemon is launched only while its socket path does not exist: the
\* path is absent from the unlink to the launch, whether it existed before
\* or not (the unlink step can always be taken); the five socket paths are
\* pairwise distinct; a socket appears only for a daemon that is running, so
\* during the start loop every socket belongs to a launched daemon or to a
\* node the loop has not reached yet, and during the readiness wait every
\* socket belongs to a daemon launched in this run.
C20_FreshSockets ==
  /\ [](pc \in {"conf", "popen"} => NodeOrder[i] \notin socks)
  /\ [](pc = "unlink" => ENABLED Unlink)
  /\ [](\A n, m \in Nodes : n # m => SockPath(n) # SockPath(m))
  /\ [][\A n \in procs' \ procs : n \notin socks /\ n \notin socks']_vars
  /\ [][\A n \in socks' \ socks : n \in running]_vars
  /\ [](pc \in {"unlink", "conf", "popen"} =>
          \A n \in socks : n \in procs \/ IndexOf(n) >= i)
  /\ [](pc \in {"deadline", "poll", "warn"} => socks \subseteq procs)
  /\ []((pc = "warn" /\ missing = <<>>) => (socks = Nodes /\ procs = Nodes))

C20_Witness ==
  /\ pc = "popen" /\ i = 2
  /\ procs = {"g1"} /\ running = {"g1"}
  /\ socks = {"g1", "s1", "s2", "s3"}

====
